---- MODULE Spec2Model ----
(***************************************************************************)
(* Model of the exact k-ary question-asking oracle                         *)
(* (300-kary-oqa-dataset/oracle/kary300_exact_oracle_dp.py).               *)
(*                                                                         *)
(* Object IDs are modelled by the integers 1..n in their sorted order,     *)
(* attribute values by short strings (the code only compares                *)
(* values for equality), and Python floats by IEEE-754 binary64 numbers     *)
(* with round-to-nearest-even, carried as <<mantissa, exponent>> with the  *)
(* mantissa a little-endian sequence of 14-bit limbs.                      *)
(***************************************************************************)
EXTENDS Integers, Sequences, FiniteSets, TLC

\* ---- Bounds of the model ------------------------------------------------
\* Largest object table of the specifications Spec and SpecCanon
MaxObjs == 3
\* Largest object table of SpecSweep, whose tables use two values only
MaxSweepObjs == 6
\* Longest candidate_ids a caller passes to best_attribute_for_state
MaxSeqLen == 3
\* Number of best_attribute_for_state calls a caller makes
MaxCalls == 2

\* ---- Arbitrary-precision naturals (limbs, least significant first) ------
LimbBits == 14
LimbBase == 2^LimbBits

RECURSIVE BigNorm(_)
BigNorm(a) ==
    IF a = <<>> THEN <<>>
    ELSE IF a[Len(a)] = 0 THEN BigNorm(SubSeq(a, 1, Len(a) - 1))
    ELSE a

RECURSIVE BigFromInt(_)
BigFromInt(k) ==
    IF k = 0 THEN <<>> ELSE <<k % LimbBase>> \o BigFromInt(k \div LimbBase)

RECURSIVE BigAddC(_, _, _)
BigAddC(a, b, c) ==
    IF a = <<>> /\ b = <<>> THEN (IF c = 0 THEN <<>> ELSE <<c>>)
    ELSE LET x == IF a = <<>> THEN 0 ELSE Head(a)
             y == IF b = <<>> THEN 0 ELSE Head(b)
             s == x + y + c
         IN  <<s % LimbBase>> \o
             BigAddC(IF a = <<>> THEN <<>> ELSE Tail(a),
                     IF b = <<>> THEN <<>> ELSE Tail(b),
                     s \div LimbBase)

BigAdd(a, b) == BigNorm(BigAddC(a, b, 0))

RECURSIVE BigMulSmallC(_, _, _)
BigMulSmallC(a, k, c) ==
    IF a = <<>> THEN (IF c = 0 THEN <<>> ELSE <<c>>)
    ELSE LET p == Head(a) * k + c
         IN  <<p % LimbBase>> \o BigMulSmallC(Tail(a), k, p \div LimbBase)

\* a * k for a limb-sized k
BigMulSmall(a, k) == BigNorm(BigMulSmallC(a, k, 0))

RECURSIVE BigMul(_, _)
BigMul(a, b) ==
    IF b = <<>> \/ a = <<>> THEN <<>>
    ELSE LET rest == BigMul(a, Tail(b))
         IN  BigAdd(BigMulSmall(a, Head(b)),
                    IF rest = <<>> THEN <<>> ELSE <<0>> \o rest)

\* <<a \div d, a % d>> for 0 < d < LimbBase, from the most significant limb down
RECURSIVE BigDivSmallR(_, _, _)
BigDivSmallR(a, d, r) ==
    IF a = <<>> THEN <<<<>>, r>>
    ELSE LET cur == r * LimbBase + a[Len(a)]
             low == BigDivSmallR(SubSeq(a, 1, Len(a) - 1), d, cur % d)
         IN  <<low[1] \o <<cur \div d>>, low[2]>>

NormQuotient(qr) == <<BigNorm(qr[1]), qr[2]>>

BigDivSmall(a, d) == NormQuotient(BigDivSmallR(a, d, 0))

ZeroLimbs(k) == [i \in 1..k |-> 0]

\* a * 2^k
BigShl(a, k) ==
    IF a = <<>> THEN <<>>
    ELSE ZeroLimbs(k \div LimbBits) \o BigMulSmall(a, 2^(k % LimbBits))

\* <<quotient, whether bits were lost>> from the quotient and remainder of the
\* kept limbs and the limbs dropped whole
ShiftedOut(qr, lost) == <<qr[1], qr[2] # 0 \/ BigNorm(lost) # <<>> >>

\* <<a \div 2^k, whether a % 2^k # 0>>
BigShr(a, k) ==
    LET drop == k \div LimbBits
    IN  ShiftedOut(BigDivSmall(IF drop >= Len(a) THEN <<>>
                                ELSE SubSeq(a, drop + 1, Len(a)),
                                2^(k % LimbBits)),
                   IF drop >= Len(a) THEN a ELSE SubSeq(a, 1, drop))

RECURSIVE IntBitLen(_)
IntBitLen(k) == IF k = 0 THEN 0 ELSE 1 + IntBitLen(k \div 2)

BigBitLen(a) ==
    IF a = <<>> THEN 0 ELSE (Len(a) - 1) * LimbBits + IntBitLen(a[Len(a)])

BigIsOdd(a) == a # <<>> /\ a[1] % 2 = 1

\* a < b for normalised a, b
RECURSIVE BigLess(_, _)
BigLess(a, b) ==
    IF Len(a) # Len(b) THEN Len(a) < Len(b)
    ELSE IF a = <<>> THEN FALSE
    ELSE IF a[Len(a)] # b[Len(b)] THEN a[Len(a)] < b[Len(b)]
    ELSE BigLess(SubSeq(a, 1, Len(a) - 1), SubSeq(b, 1, Len(b) - 1))

\* ---- binary64 floats: <<m, e>> stands for m * 2^e, m = 0 or 53 bits wide -
\* A zero mantissa with exponent 1 stands for float("inf").
MantissaBits == 53

FZero == <<<<>>, 0>>
FInf == <<<<>>, 1>>

\* A rounded mantissa that grew to 54 bits is 2^53: halve it
FRoundCarry(q, e) ==
    IF BigBitLen(q) > MantissaBits THEN <<BigDivSmall(q, 2)[1], e + 1>> ELSE <<q, e>>

\* q * 2^e, plus the bit `half` below it and something still lower iff `sticky`:
\* up when above the middle, or at the middle with q odd
FRoundNearest(q, half, sticky, e) ==
    FRoundCarry(IF half /\ (sticky \/ BigIsOdd(q)) THEN BigAdd(q, <<1>>) ELSE q, e)

\* sh is <<the mantissa with one bit more, whether lower bits were lost>>
FRoundCut(sh, e) ==
    FRoundNearest(BigDivSmall(sh[1], 2)[1], BigIsOdd(sh[1]), sh[2], e)

FRoundLen(n, e, len) ==
    IF len = 0 THEN FZero
    ELSE IF len <= MantissaBits
         THEN <<BigShl(n, MantissaBits - len), e - (MantissaBits - len)>>
    ELSE FRoundCut(BigShr(n, len - MantissaBits - 1), e + (len - MantissaBits))

\* The float nearest to n * 2^e (ties to even), n a natural
FRound(n, e) == FRoundLen(n, e, BigBitLen(n))

FFromInt(k) == FRound(BigFromInt(k), 0)

FOne == FFromInt(1)

\* float(k) / float(n) for integers 0 <= k, 0 < n < LimbBase: Python's int / int
GuardBits == 70
FDivRound(qr) ==
    FRound(BigAdd(BigMulSmall(qr[1], 2), IF qr[2] # 0 THEN <<1>> ELSE <<>>),
           0 - (GuardBits + 1))

FDivInt(k, n) == FDivRound(BigDivSmall(BigShl(BigFromInt(k), GuardBits), n))

FMul(x, y) == FRound(BigMul(x[1], y[1]), x[2] + y[2])

FAdd(x, y) ==
    IF x[1] = <<>> THEN y
    ELSE IF y[1] = <<>> THEN x
    ELSE LET e == IF x[2] < y[2] THEN x[2] ELSE y[2]
         IN  FRound(BigAdd(BigShl(x[1], x[2] - e), BigShl(y[1], y[2] - e)), e)

\* x < y for the non-negative floats of the model
FLess(x, y) ==
    IF x = FInf THEN FALSE
    ELSE IF y = FInf THEN TRUE
    ELSE IF y[1] = <<>> THEN FALSE
    ELSE IF x[1] = <<>> THEN TRUE
    ELSE IF x[2] # y[2] THEN x[2] < y[2]
    ELSE BigLess(x[1], y[1])

\* math.log2(n) for n = 1, 2, ..., as binary64 numbers: the values the C library
\* returns, each the double nearest to the real logarithm
Log2Table == <<
    <<<<>>, 0>>,                                    \* log2(1)
    <<<<0, 0, 0, 1024>>, -52>>,                     \* log2(2)
    <<<<15720, 3710, 26, 1623>>, -52>>,             \* log2(3)
    <<<<0, 0, 0, 1024>>, -51>>,                     \* log2(4)
    <<<<9073, 9702, 13552, 1188>>, -51>>,           \* log2(5)
    <<<<7860, 1855, 8205, 1323>>, -51>>,            \* log2(6)
    <<<<1069, 15696, 5991, 1437>>, -51>>,           \* log2(7)
    <<<<0, 0, 0, 1536>>, -51>>                      \* log2(8)
>>

\* ---- The program's state ------------------------------------------------
VARIABLES
    items,         \* self.items: object ID -> (attribute name -> value)
    attributes,    \* self.attributes: the sorted tuple of attribute names
    root_state,    \* self.root_state.ids: the sorted tuple of all object IDs
    has_solver,    \* hasattr(self, "_cached_solve")
    cache,         \* the lru_cache of cached_solve: ids tuple -> (cost, attribute)
    runs,          \* how often the body of _solve_state ran, per ids tuple
    pc,            \* "idle", or "loop" inside simulate_target's while loop
    target_id,     \* simulate_target's argument
    current_ids,   \* simulate_target's candidate set
    entropies,     \* simulate_target's list of entropies
    asked,         \* simulate_target's list of asked attributes
    ret,           \* what the last finished public call returned or raised
    prev,          \* what ret was before the last best_attribute_for_state call
    ncalls,        \* number of best_attribute_for_state calls the caller made
    sweep          \* the caller's sweep over all targets: whether it is one, and
                   \* target ID -> len(asked) of its finished simulations

vars == <<items, attributes, root_state, has_solver, cache, runs, pc, target_id,
          current_ids, entropies, asked, ret, prev, ncalls, sweep>>

oracle == <<items, attributes, root_state, has_solver, cache>>
locals == <<target_id, current_ids, entropies, asked>>

None == "None"

\* ---- Input tables ---------------------------------------------------------
\* Attribute names and values, each listed in Python's string order.
AttributeNames == <<"color", "size">>
ValueNames == <<"L", "M", "S">>

Range(s) == {s[i] : i \in DOMAIN s}

RECURSIVE MaxUpTo(_, _)
MaxUpTo(col, i) ==
    IF i = 0 THEN 0
    ELSE LET m == MaxUpTo(col, i - 1) IN IF col[i] > m THEN col[i] ELSE m

\* One attribute's column over objects 1..n, up to renaming of its values: a
\* value's index is at most one more than the indices used by earlier objects.
Columns(n, numVals) ==
    {col \in [1..n -> 1..numVals] :
        \A i \in 1..n : col[i] <= MaxUpTo(col, i - 1) + 1}

\* The tables with n objects that all have the attribute names `keys`.
TablesOver(n, keys, values) ==
    {[id \in 1..n |-> [a \in keys |-> values[t[a][id]]]] :
        t \in [keys -> Columns(n, Len(values))]}

Tables(maxObjs, values) ==
    UNION {TablesOver(n, keys, values) :
             n \in 1..maxObjs, keys \in SUBSET Range(AttributeNames)}

\* ---- OracleState ----------------------------------------------------------
RECURSIVE Insert(_, _)
Insert(sorted, x) ==
    IF sorted = <<>> THEN <<x>>
    ELSE IF x < Head(sorted) THEN <<x>> \o sorted
    ELSE <<Head(sorted)>> \o Insert(Tail(sorted), x)

RECURSIVE SortIds(_)
SortIds(s) ==
    IF s = <<>> THEN <<>>
    ELSE Insert(SortIds(SubSeq(s, 1, Len(s) - 1)), s[Len(s)])

\* OracleState.from_iterable(ids).ids
from_iterable(ids) == SortIds(ids)

\* sorted(record.keys()) for a set of attribute names
SortedNames(keys) == SelectSeq(AttributeNames, LAMBDA a : a \in keys)

\* ---- The dynamic program ----------------------------------------------------
\* The keys of `buckets`, in insertion order
RECURSIVE BucketKeys(_, _, _)
BucketKeys(ids, attribute, seen) ==
    IF ids = <<>> THEN seen
    ELSE LET v == items[Head(ids)][attribute]
         IN  BucketKeys(Tail(ids), attribute,
                        IF v \in Range(seen) THEN seen ELSE Append(seen, v))

\* The values of `buckets`, in insertion order
Buckets(ids, attribute, keys) ==
    [k \in 1..Len(keys) |->
        from_iterable(SelectSeq(ids, LAMBDA id : items[id][attribute] = keys[k]))]

split_on_attribute(ids, attribute) ==
    Buckets(ids, attribute, BucketKeys(ids, attribute, <<>>))

\* A solver that tries the first attribute only
candidate_attributes_first(ids) ==
    IF attributes = <<>> THEN <<>> ELSE <<attributes[1]>>

candidate_attributes(ids) == attributes

RECURSIVE solve_state(_)
RECURSIVE ExpectedCost(_, _, _, _)
RECURSIVE BestOver(_, _, _)
RECURSIVE BestOverAttr(_, _, _, _)
RECURSIVE BestOverChildren(_, _, _, _, _)

\* The loop `for child in children`, from child j on, expected_cost so far acc
ExpectedCost(children, n, j, acc) ==
    IF j > Len(children) THEN acc
    ELSE LET weight   == FDivInt(Len(children[j]), n)
             sub_cost == solve_state(children[j])[1]
         IN  ExpectedCost(children, n, j + 1, FAdd(acc, FMul(weight, sub_cost)))

\* `if expected_cost < best_cost`: <<best_cost, best_attr>> afterwards
Better(best, expected_cost, attr) ==
    IF FLess(expected_cost, best[1]) THEN <<expected_cost, attr>> ELSE best

\* The loop `for attr in ...`, from attribute i on, <<best_cost, best_attr>> so far
BestOver(ids, i, best) ==
    IF i > Len(candidate_attributes(ids)) THEN best
    ELSE BestOverAttr(ids, i, best, candidate_attributes(ids)[i])

BestOverAttr(ids, i, best, attr) ==
    BestOverChildren(ids, i, best, attr, split_on_attribute(ids, attr))

BestOverChildren(ids, i, best, attr, children) ==
    BestOver(ids, i + 1,
             IF Len(children) <= 1 THEN best
             ELSE Better(best, ExpectedCost(children, Len(ids), 1, FOne), attr))

\* `if best_attr is None`: the state cannot be split
Fallback(best) == IF best[2] = None THEN <<FZero, None>> ELSE best

\* A solver without the fallback for a state that no attribute splits
solve_state_no_fallback(ids) ==
    IF Len(ids) <= 1 THEN <<FZero, None>>
    ELSE BestOver(ids, 1, <<FInf, None>>)

solve_state(ids) ==
    IF Len(ids) <= 1 THEN <<FZero, None>>
    ELSE Fallback(BestOver(ids, 1, <<FInf, None>>))

\* The ids tuples on which the body of _solve_state runs during _solve_state(ids),
\* in call order
RECURSIVE SolveCalls(_)
RECURSIVE ChildCalls(_, _)
RECURSIVE AttrCalls(_, _)
RECURSIVE AttrChildCalls(_, _, _)

ChildCalls(children, j) ==
    IF j > Len(children) THEN <<>>
    ELSE SolveCalls(children[j]) \o ChildCalls(children, j + 1)

AttrCalls(ids, i) ==
    IF i > Len(candidate_attributes(ids)) THEN <<>>
    ELSE AttrChildCalls(ids, i, split_on_attribute(ids, candidate_attributes(ids)[i]))

AttrChildCalls(ids, i, children) ==
    (IF Len(children) <= 1 THEN <<>> ELSE ChildCalls(children, 1))
        \o AttrCalls(ids, i + 1)

SolveCalls(ids) ==
    <<ids>> \o (IF Len(ids) <= 1 THEN <<>> ELSE AttrCalls(ids, 1))

RECURSIVE Counted(_, _)
Counted(count, calls) ==
    IF calls = <<>> THEN count
    ELSE LET ids == Head(calls)
             one == IF ids \in DOMAIN count THEN count[ids] + 1 ELSE 1
         IN  Counted((ids :> one) @@ count, Tail(calls))

\* cached_solve(ids) on a miss: the result, and the cache and run counts after it
Memoized(ids, result) ==
    [result |-> result,
     cache  |-> (ids :> result) @@ cache,
     runs   |-> Counted(runs, SolveCalls(ids))]

\* self.solver(ids): the result, and the cache and run counts after the call
solver(ids) ==
    IF ids \in DOMAIN cache
    THEN [result |-> cache[ids], cache |-> cache, runs |-> runs]
    ELSE Memoized(ids, solve_state(ids))

\* ---- entropy_uniform -------------------------------------------------------
\* An entropy that is 0 for two items as well
entropy_uniform_from_three(num_items) ==
    IF num_items <= 2 THEN FZero ELSE Log2Table[num_items]

entropy_uniform(num_items) ==
    IF num_items <= 1 THEN FZero ELSE Log2Table[num_items]

\* ---- Construction ------------------------------------------------------------
Descending(n) == [i \in 1..n |-> n + 1 - i]

NoCall == [op |-> "none", arg |-> None, state |-> <<>>, value |-> None, error |-> ""]

\* KaryOracleDP(tbl), before any call
Construct(tbl) ==
    /\ items = tbl
    /\ attributes = SortedNames(DOMAIN tbl[1])
    /\ root_state = from_iterable(Descending(Len(tbl)))
    /\ has_solver = FALSE
    /\ cache = <<>>
    /\ runs = <<>>
    /\ pc = "idle"
    /\ target_id = 0
    /\ current_ids = {}
    /\ entropies = <<>>
    /\ asked = <<>>
    /\ ret = NoCall
    /\ prev = NoCall
    /\ ncalls = 0

Init ==
    /\ \E tbl \in Tables(MaxObjs, ValueNames) : Construct(tbl)
    /\ sweep = [on |-> FALSE, asked |-> <<>>]

InitSweep ==
    /\ \E tbl \in Tables(MaxSweepObjs, SubSeq(ValueNames, 1, 2)) : Construct(tbl)
    /\ sweep = [on |-> TRUE, asked |-> <<>>]

\* ---- Public API ---------------------------------------------------------------
OptimalRootCost(solved) ==
    /\ ret' = [op |-> "optimal_root_cost", arg |-> None, state |-> root_state,
               value |-> solved.result[1], error |-> ""]
    /\ cache' = solved.cache
    /\ runs' = solved.runs
    /\ has_solver' = TRUE
    /\ UNCHANGED <<items, attributes, root_state, pc, locals, prev, ncalls, sweep>>

optimal_root_cost ==
    /\ pc = "idle"
    /\ OptimalRootCost(solver(root_state))

\* The sequences over the object IDs a caller may pass as candidate_ids
CandidateSeqs ==
    UNION {[1..len -> DOMAIN items] : len \in 0..MaxSeqLen}

BestAttribute(candidate_ids, state, solved) ==
    /\ ret' = [op |-> "best_attribute_for_state", arg |-> candidate_ids,
               state |-> state, value |-> solved.result[2], error |-> ""]
    /\ prev' = ret
    /\ ncalls' = ncalls + 1
    /\ cache' = solved.cache
    /\ runs' = solved.runs
    /\ has_solver' = TRUE
    /\ UNCHANGED <<items, attributes, root_state, pc, locals, sweep>>

BestAttributeOf(candidate_ids, state) ==
    BestAttribute(candidate_ids, state, solver(state))

best_attribute_for_state(candidate_ids) ==
    /\ pc = "idle"
    /\ ncalls < MaxCalls
    /\ BestAttributeOf(candidate_ids, from_iterable(candidate_ids))

BestAttributeForState ==
    \E candidate_ids \in CandidateSeqs : best_attribute_for_state(candidate_ids)

\* A membership check that comes only after the solver ran on the root state
SimulateRaiseLate(target) ==
    /\ ret' = [op |-> "simulate_target", arg |-> target, state |-> <<>>,
               value |-> None, error |-> "KeyError"]
    /\ has_solver' = TRUE
    /\ cache' = solver(root_state).cache
    /\ runs' = solver(root_state).runs
    /\ UNCHANGED <<items, attributes, root_state, pc, locals, prev, ncalls, sweep>>

\* `raise KeyError` for a target that is no key of items
SimulateRaise(target) ==
    /\ ret' = [op |-> "simulate_target", arg |-> target, state |-> <<>>,
               value |-> None, error |-> "KeyError"]
    /\ UNCHANGED <<oracle, runs, pc, locals, prev, ncalls, sweep>>

\* The statements of simulate_target before its loop
SimulateBegin(target) ==
    /\ target_id' = target
    /\ current_ids' = Range(root_state)
    /\ entropies' = <<entropy_uniform(Cardinality(Range(root_state)))>>
    /\ asked' = <<>>
    /\ pc' = "loop"
    /\ UNCHANGED <<oracle, runs, ret, prev, ncalls, sweep>>

simulate_target(target) ==
    /\ pc = "idle"
    /\ IF target \notin DOMAIN items
       THEN SimulateRaise(target)
       ELSE SimulateBegin(target)

\* The IDs a caller passes as target_id: every key, and two IDs that are no key
TargetIds == 0..(Len(items) + 1)

SimulateTarget ==
    /\ ~sweep.on
    /\ \E target \in TargetIds : simulate_target(target)

\* The caller of SpecSweep simulates every object once, in sorted order
SweepTarget ==
    /\ sweep.on
    /\ \E target \in DOMAIN items :
          /\ target \notin DOMAIN sweep.asked
          /\ \A other \in DOMAIN items :
                other < target => other \in DOMAIN sweep.asked
          /\ simulate_target(target)

\* tuple(current_ids): a set is iterated in an arbitrary order
SetOrders(ids) ==
    LET up == SelectSeq(root_state, LAMBDA id : id \in ids)
    IN  {up, [i \in 1..Len(up) |-> up[Len(up) + 1 - i]]}

\* A filter that keeps every candidate
ConsistentAll(ids, target, attr) == ids

\* The candidates consistent with the target's value of attr
Consistent(ids, target, attr) ==
    {obj_id \in ids : items[obj_id][attr] = items[target][attr]}

\* `return entropies, asked`
SimulateReturn ==
    /\ pc' = "idle"
    /\ ret' = [op |-> "simulate_target", arg |-> target_id, state |-> <<>>,
               value |-> <<entropies, asked>>, error |-> ""]
    /\ sweep' = IF sweep.on
                THEN [sweep EXCEPT !.asked = (target_id :> Len(asked)) @@ @]
                ELSE sweep
    /\ UNCHANGED <<items, attributes, root_state, locals, prev, ncalls>>

\* asked.append(attr), and the restriction to `consistent`
SimulateRestrict(attr, consistent) ==
    /\ asked' = Append(asked, attr)
    /\ current_ids' = consistent
    /\ entropies' = Append(entropies, entropy_uniform(Cardinality(consistent)))
    /\ UNCHANGED <<items, attributes, root_state, pc, target_id, ret, prev,
                   ncalls, sweep>>

\* The pass from best_attribute_for_state's answer on
SimulateAsk(solved) ==
    /\ cache' = solved.cache
    /\ runs' = solved.runs
    /\ has_solver' = TRUE
    /\ IF solved.result[2] = None
       THEN SimulateReturn
       ELSE SimulateRestrict(solved.result[2],
                             Consistent(current_ids, target_id, solved.result[2]))

\* One pass of `while True`
SimulateLoop ==
    /\ pc = "loop"
    /\ IF Cardinality(current_ids) <= 1
       THEN SimulateReturn /\ UNCHANGED <<has_solver, cache, runs>>
       ELSE \E order \in SetOrders(current_ids) :
              SimulateAsk(solver(from_iterable(order)))

\* ---- Specifications -----------------------------------------------------------
Next == optimal_root_cost \/ SimulateTarget \/ SimulateLoop

Spec == Init /\ [][Next]_vars

NextCanon == BestAttributeForState

SpecCanon == Init /\ [][NextCanon]_vars

NextSweep == optimal_root_cost \/ SweepTarget \/ SimulateLoop

SpecSweep == InitSweep /\ [][NextSweep]_vars

\* ---- Properties ---------------------------------------------------------------
\* simulate_target returned (did not raise) and no other call has finished since
Simulated == pc = "idle" /\ ret.op = "simulate_target" /\ ret.error = ""

\* The objects that agree with obj_id on every attribute
EquivalenceClass(obj_id) ==
    {other \in DOMAIN items :
        \A a \in DOMAIN items[obj_id] : items[other][a] = items[obj_id][a]}

\* Some attribute takes two values on the objects of ids
Splittable(ids) ==
    \E a \in Range(attributes) : \E x, y \in ids : items[x][a] # items[y][a]

\* C2: every simulate_target call on a known ID terminates, and it never asks more
\* questions than the schema has attributes: each pass of its loop returns or asks
\* one more attribute and leaves strictly fewer candidates, and the attributes
\* asked never outnumber the schema's, so the loop has a bounded number of passes.
C2_SimulateTerminatesWithinSchema ==
    /\ [](Len(asked) <= Len(attributes))
    /\ [][pc = "loop" =>
            \/ pc' = "idle"
            \/ /\ Len(asked') = Len(asked) + 1
               /\ current_ids' \subseteq current_ids
               /\ current_ids' # current_ids]_vars

\* A simulation that returned after asking every attribute of a two-attribute schema
C2_Witness ==
    /\ Simulated
    /\ Len(attributes) = 2
    /\ Len(ret.value[2]) = 2

\* C3: the entropies simulate_target builds never increase from one element to the
\* next, and the first is log2 of the number of objects, or 0 for at most one object.
C3_EntropiesNonIncreasing ==
    (pc = "loop" \/ Simulated) =>
        /\ entropies[1] = (IF Len(items) <= 1 THEN FZero ELSE Log2Table[Len(items)])
        /\ \A i \in 1..(Len(entropies) - 1) : ~FLess(entropies[i], entropies[i + 1])

\* A returned simulation whose entropies fall twice, from log2(3) bits
C3_Witness ==
    /\ Simulated
    /\ Len(ret.value[1]) = 3
    /\ ret.value[1][1] = Log2Table[3]
    /\ FLess(ret.value[1][2], ret.value[1][1])
    /\ FLess(ret.value[1][3], ret.value[1][2])

\* C4: simulate_target stops exactly at the target's equivalence class: when it
\* returns, the candidates are the objects equal to the target on every attribute
\* and the last entropy is log2 of their number, and no attribute is asked once
\* the candidates are that class.
C4_StopsAtEquivalenceClass ==
    /\ [](Simulated =>
            /\ current_ids = EquivalenceClass(target_id)
            /\ ret.value[1][Len(ret.value[1])] =
                  (IF Cardinality(EquivalenceClass(target_id)) <= 1 THEN FZero
                   ELSE Log2Table[Cardinality(EquivalenceClass(target_id))]))
    /\ [][(pc = "loop" /\ current_ids = EquivalenceClass(target_id))
            => asked' = asked]_vars

\* A simulation that asked a question and returned with two indistinguishable
\* candidates left, at 1 bit
C4_Witness ==
    /\ Simulated
    /\ Len(ret.value[2]) >= 1
    /\ Cardinality(current_ids) = 2
    /\ ret.value[1][Len(ret.value[1])] = FOne

\* C5 as stated: optimal_root_cost() is finite and non-negative, and it is 0 only
\* when the table has at most one entry.
C5_ZeroOnlyForOneEntry ==
    ret.op = "optimal_root_cost" =>
        /\ ret.value # FInf
        /\ ~FLess(ret.value, FZero)
        /\ (ret.value = FZero => Len(items) <= 1)

\* C5, amended: optimal_root_cost() is finite and non-negative, and it is 0 only
\* when the table has at most one entry or no attribute separates any two of its
\* objects.
C5_ZeroOnlyWithoutSplit ==
    ret.op = "optimal_root_cost" =>
        /\ ret.value # FInf
        /\ ~FLess(ret.value, FZero)
        /\ (ret.value = FZero => Len(items) <= 1 \/ ~Splittable(DOMAIN items))

\* optimal_root_cost() returned 0 for a table of several objects
C5_Witness ==
    /\ ret.op = "optimal_root_cost"
    /\ ret.value = FZero
    /\ Len(items) >= 2

\* C7: simulate_target with an ID that is no key of the table raises a lookup
\* error and leaves the oracle (items, schema, root state, solver and its memo
\* table) as it was, whatever calls preceded; such an ID never enters the loop.
C7_UnknownTargetRaises ==
    /\ [][(pc = "idle" /\ pc' = "idle" /\ ret'.op = "simulate_target")
            => /\ ret'.arg \notin DOMAIN items
               /\ ret'.error = "KeyError"
               /\ oracle' = oracle
               /\ runs' = runs]_vars
    /\ [][pc' = "loop" => target_id' \in DOMAIN items]_vars

\* The lookup error of an oracle whose memo table already holds results
C7_Witness ==
    /\ ret.op = "simulate_target"
    /\ ret.error = "KeyError"
    /\ DOMAIN cache # {}
    /\ Len(items) >= 2

\* C8: over any sequence of calls, the body of the solver runs at most once for
\* each distinct candidate set, recursive requests for child states included.
C8_SolveRunsOncePerState ==
    \A ids \in DOMAIN runs : runs[ids] <= 1

\* C6: the canonical state depends only on the member set: candidate_ids with the
\* same members, in any order and with or without repeated IDs, give the same
\* state, which lists the distinct members in sorted order, and the same answer
\* of best_attribute_for_state.
C6_StateDependsOnMembersOnly ==
    ret.op = "best_attribute_for_state" =>
        /\ ret.state = SelectSeq(root_state, LAMBDA id : id \in Range(ret.arg))
        /\ (prev.op = "best_attribute_for_state" /\ Range(prev.arg) = Range(ret.arg))
              => (prev.state = ret.state /\ prev.value = ret.value)

\* ---- Question policies, in exact arithmetic -----------------------------------
\* The classes into which attribute a divides the objects of ids
Parts(ids, a) ==
    {{x \in ids : items[x][a] = items[y][a]} : y \in ids}

Splitting(ids) == {a \in Range(attributes) : Cardinality(Parts(ids, a)) > 1}

Min(numbers) == CHOOSE x \in numbers : \A y \in numbers : x <= y

\* For every adaptive policy that keeps asking splitting attributes until none
\* splits the candidates left: the questions it asks, summed over the targets in ids
RECURSIVE PolicyTotals(_)
RECURSIVE PartsTotals(_)

PartsTotals(parts) ==
    IF parts = {} THEN {0}
    ELSE LET part == CHOOSE c \in parts : TRUE
         IN  {x + y : x \in PolicyTotals(part), y \in PartsTotals(parts \ {part})}

PolicyTotals(ids) ==
    IF Splitting(ids) = {} THEN {0}
    ELSE UNION {{Cardinality(ids) + rest : rest \in PartsTotals(Parts(ids, a))} :
                  a \in Splitting(ids)}

\* Asking a first and optimally afterwards: the questions summed over the targets
AttributeTotal(ids, a) ==
    Cardinality(ids) + Min(PartsTotals(Parts(ids, a)))

\* The first attribute, in sorted order, among the splitting attributes of ids
\* whose total is least
FirstBest(ids) ==
    LET least == Min({AttributeTotal(ids, a) : a \in Splitting(ids)})
        i     == Min({j \in 1..Len(attributes) :
                        /\ attributes[j] \in Splitting(ids)
                        /\ AttributeTotal(ids, attributes[j]) = least})
    IN  attributes[i]

RECURSIVE SumAsked(_)
\* The questions asked for the targets 1..n, summed
SumAsked(n) == IF n = 0 THEN 0 ELSE sweep.asked[n] + SumAsked(n - 1)

\* C1: optimal_root_cost() is the least average number of questions of any
\* adaptive policy, the average taken uniformly over all objects as targets.
C1_RootCostIsPolicyMinimum ==
    ret.op = "optimal_root_cost" =>
        ret.value = FDivInt(Min(PolicyTotals(DOMAIN items)), Len(items))

\* C9: for a state of two or more objects that some attribute splits, the solver
\* returns the first attribute, in sorted name order, among the splitting
\* attributes whose expected cost 1 + sum(|child|/|state| * cost(child)) is least.
C9_FirstAttributeOfLeastCost ==
    \A ids \in DOMAIN cache :
        (Len(ids) >= 2 /\ Splitting(Range(ids)) # {})
            => cache[ids][2] = FirstBest(Range(ids))

\* C10: the questions simulate_target asks, summed over every object as target,
\* are the number of objects times optimal_root_cost().
C10_QuestionsSumToRootCost ==
    (ret.op = "optimal_root_cost" /\ DOMAIN sweep.asked = DOMAIN items)
        => FFromInt(SumAsked(Len(items))) = FMul(FFromInt(Len(items)), ret.value)

====
